---- MODULE Spec2Model ----
(***************************************************************************)
(* Model of the portfolio API in src/main.py: the admin credential table,  *)
(* the in-memory OTP_STORE, the login / update-admin / forgot-password /   *)
(* verify-otp / reset-password handlers and the CRUD handlers of the four  *)
(* content tables.                                                         *)
(*                                                                         *)
(* Strings are sequences of one-character strings, so that str.strip(),    *)
(* str(int) and re.search() are computed as the code computes them.        *)
(***************************************************************************)
EXTENDS Integers, Sequences, FiniteSets, TLC

VARIABLES
    admin,      \* rows of table "admin": records [username, password]
    OTP_STORE,  \* the dict OTP_STORE as a set of <<email, otp>> items
    tables,     \* kind -> rows of that content table: records [key, data]
    response,   \* the response of the last request: [op, result, body]
    hist,       \* history: the last request and the state it was served in
    consumed,   \* history: <<email, otp>> used by a successful reset, not re-issued since
    workers     \* reset-password requests in progress, one per worker thread

vars == <<admin, OTP_STORE, tables, response, hist, consumed, workers>>

-----------------------------------------------------------------------------
(* Bounds of the model *)

NumCodes == 2      \* how many of the 900000 possible codes random.randint may draw
MaxRows == 1       \* rows held by the four content tables together
NumWorkers == 2    \* concurrent reset-password requests

(* Program constants *)
OtpMin == 100000

-----------------------------------------------------------------------------
(* Strings *)

Whitespace == {" ", "\t", "\n"}
UpperCase == {"A", "B", "C", "D", "E", "F", "G", "H", "I", "J", "K", "L", "M",
              "N", "O", "P", "Q", "R", "S", "T", "U", "V", "W", "X", "Y", "Z"}
Digits == {"0", "1", "2", "3", "4", "5", "6", "7", "8", "9"}
SpecialChars == {"@", "$", "!", "%", "*", "?", "&"}

RECURSIVE LStrip(_)
LStrip(s) == IF s # <<>> /\ Head(s) \in Whitespace THEN LStrip(Tail(s)) ELSE s

RECURSIVE RStrip(_)
RStrip(s) ==
    IF s # <<>> /\ s[Len(s)] \in Whitespace THEN RStrip(SubSeq(s, 1, Len(s) - 1)) ELSE s

\* str.strip()
Strip(s) == RStrip(LStrip(s))

\* re.search(r"[...]", v): some character of v is in the class
Search(class, v) == \E i \in 1..Len(v) : v[i] \in class

DigitChar(d) ==
    CASE d = 0 -> "0" [] d = 1 -> "1" [] d = 2 -> "2" [] d = 3 -> "3" [] d = 4 -> "4"
      [] d = 5 -> "5" [] d = 6 -> "6" [] d = 7 -> "7" [] d = 8 -> "8" [] d = 9 -> "9"

\* str(n) for n >= 0
RECURSIVE Str(_)
Str(n) == IF n < 10 THEN <<DigitChar(n)>> ELSE Append(Str(n \div 10), DigitChar(n % 10))

-----------------------------------------------------------------------------
(* Request values *)

E1 == <<"a", "@", "x">>
E2 == <<"b", "@", "x">>
\* values of an EmailStr field
Emails == {E1, E2}

P1 == <<"A", "1", "!">>
\* a password, the same padded with a blank, and one the policy rejects
Passwords == {P1, <<" ">> \o P1, <<"a", "1", "!">>}

\* random.randint(100000, 999999), cut to NumCodes values
Codes == OtpMin..(OtpMin + NumCodes - 1)
\* the otp field of a request
OtpInputs == {Str(c) : c \in Codes}

LoginRequest == [op : {"login"}, username : Emails, password : Passwords]
UpdateCredentialsRequest ==
    [op : {"update_admin"}, old_username : Emails, old_password : Passwords,
     new_username : Emails, new_password : Passwords]
ForgotPasswordRequest == [op : {"forgot_password"}, email : Emails]
VerifyOtpRequest == [op : {"verify_otp"}, email : Emails, otp : OtpInputs]
ResetPasswordRequest ==
    [op : {"reset_password"}, email : Emails, otp : OtpInputs,
     new_password : Passwords, confirm_password : Passwords]

\* ResetPasswordRequest.validate_new_password: the rule that rejects v, or "ok"
validate_new_password(v) ==
    IF ~Search(UpperCase, v) THEN "uppercase"
    ELSE IF ~Search(Digits, v) THEN "number"
    ELSE IF ~Search(SpecialChars, v) THEN "special"
    ELSE "ok"

-----------------------------------------------------------------------------
(* The dict OTP_STORE *)

DictKeys(d) == {item[1] : item \in d}

\* a store that kept the old item of k beside the new one
DictSetKeepOld(d, k, v) == d \cup {<<k, v>>}
\* d[k] = v
DictSet(d, k, v) == {item \in d : item[1] # k} \cup {<<k, v>>}

\* a del that removed nothing
DictDelNothing(d, k) == d
\* del d[k], for k in d
DictDel(d, k) == {item \in d : item[1] # k}

\* a removal that ignores a missing key, as d.pop(k, None) does
DelNeverRaises(d, k) == FALSE
\* del d[k] raises KeyError when k is not in d
DelRaises(d, k) == k \notin DictKeys(d)

\* req.email not in OTP_STORE or OTP_STORE[req.email] != req.otp
OtpRejected(d, email, otp) == email \notin DictKeys(d) \/ <<email, otp>> \notin d

-----------------------------------------------------------------------------
(* The admin table *)

NoAdmin == [username |-> <<>>, password |-> <<>>]

\* fetch_admin: the first row, or the empty placeholder
fetch_admin(rows) == IF rows # {} THEN CHOOSE r \in rows : TRUE ELSE NoAdmin

\* db.query(AdminDB).filter(AdminDB.username == name): the matching rows
AdminByUsername(rows, name) == {r \in rows : r.username = name}

\* a write that added the new row and kept the old one
InsertInstead(rows, old, new) == rows \cup {new}
\* a loaded row mutated in place and committed
ReplaceRow(rows, old, new) == (rows \ {old}) \cup {new}

NoBody == {}
RespBody(op, result, body) == [op |-> op, result |-> result, body |-> body]
Resp(op, result) == RespBody(op, result, NoBody)

\* a comparison that strips the request's fields only
ExactMatch(req, adm) ==
    Strip(req.username) = adm.username /\ Strip(req.password) = adm.password
\* login: the comparison of line 280
CredentialsMatch(req, adm) ==
    Strip(req.username) = Strip(adm.username) /\ Strip(req.password) = Strip(adm.password)

login(req) ==
    /\ response' = Resp("login", IF CredentialsMatch(req, fetch_admin(admin))
                                 THEN "Success" ELSE "InvalidCredentials")
    /\ UNCHANGED <<admin, OTP_STORE, tables, workers>>

update_admin(req) ==
    LET found == AdminByUsername(admin, req.old_username)
        row == CHOOSE r \in found : TRUE
    IN  /\ IF found = {} \/ req.old_password # row.password
           THEN /\ response' = Resp("update_admin", "Unauthorized")
                /\ admin' = admin
           ELSE /\ admin' = ReplaceRow(admin, row, [username |-> req.new_username,
                                                    password |-> req.new_password])
                /\ response' = Resp("update_admin", "Success")
        /\ UNCHANGED <<OTP_STORE, tables, workers>>

\* forgot_password: otp is the value random.randint draws, sent is whether SMTP delivery worked
forgot_password(req, otp, sent) ==
    /\ IF req.email # fetch_admin(admin).username
       THEN /\ response' = Resp("forgot_password", "EmailNotRegistered")
            /\ OTP_STORE' = OTP_STORE
       ELSE /\ OTP_STORE' = DictSet(OTP_STORE, req.email, Str(otp))
            /\ response' = Resp("forgot_password",
                                IF sent THEN "OtpSent" ELSE "DeliveryFailure")
    /\ UNCHANGED <<admin, tables, workers>>

VerifyResult(store, req) ==
    IF OtpRejected(store, req.email, req.otp) THEN "InvalidOrExpired" ELSE "Verified"

verify_otp(req) ==
    /\ response' = Resp("verify_otp", VerifyResult(OTP_STORE, req))
    /\ UNCHANGED <<admin, OTP_STORE, tables, workers>>

\* the checks in the order OTP, equality, policy, admin lookup
OtpFirstChecks(rows, store, req) ==
    IF OtpRejected(store, req.email, req.otp) THEN "InvalidOrExpired"
    ELSE IF req.new_password # req.confirm_password THEN "PasswordMismatch"
    ELSE IF validate_new_password(req.new_password) # "ok" THEN "PasswordPolicyViolation"
    ELSE IF AdminByUsername(rows, req.email) = {} THEN "AdminNotFound"
    ELSE "ok"
\* the checks of reset_password in the order they run: the field validator of the
\* request model (lines 333-342) runs before the handler body (lines 362-368)
ResetChecks(rows, store, req) ==
    IF validate_new_password(req.new_password) # "ok" THEN "PasswordPolicyViolation"
    ELSE IF OtpRejected(store, req.email, req.otp) THEN "InvalidOrExpired"
    ELSE IF req.new_password # req.confirm_password THEN "PasswordMismatch"
    ELSE IF AdminByUsername(rows, req.email) = {} THEN "AdminNotFound"
    ELSE "ok"

\* a handler that removed the OTP record before it committed
DelBeforeCommit(store, email, committed) == DictDel(store, email)
\* the OTP store after lines 369-371: the del runs only when db.commit() returned
StoreAfterCommit(store, email, committed) ==
    IF committed THEN DictDel(store, email) ELSE store

\* the outcome of reset_password(req) served in state (rows, store)
ResetResult(rows, store, req, committed) ==
    LET c == ResetChecks(rows, store, req)
    IN  IF c # "ok" THEN c ELSE IF committed THEN "Success" ELSE "CommitFailed"

reset_password(req, committed) ==
    LET c == ResetChecks(admin, OTP_STORE, req)
        row == CHOOSE r \in AdminByUsername(admin, req.email) : TRUE
    IN  /\ response' = Resp("reset_password", ResetResult(admin, OTP_STORE, req, committed))
        /\ IF c # "ok"
           THEN UNCHANGED <<admin, OTP_STORE>>
           ELSE /\ admin' = IF committed
                            THEN ReplaceRow(admin, row, [row EXCEPT !.password = req.new_password])
                            ELSE admin
                /\ OTP_STORE' = StoreAfterCommit(OTP_STORE, req.email, committed)
        /\ UNCHANGED <<tables, workers>>

-----------------------------------------------------------------------------
(* The content tables.  A row is [key, data]: key is the primary-key column *)
(* (ProjectDB.id, SkillDB.name, ExperienceDB.role, ResearchDB.title) and    *)
(* data stands for the tuple of the other columns, which every handler      *)
(* copies together.                                                         *)

Kinds == {"projects", "skills", "experience", "research"}
Keys == {"k1", "k2"}
Data == {"d1", "d2"}
\* the pydantic models Project, SkillCategory, ExperienceItem, Research
Records == [key : Keys, data : Data]
NoRecord == [key |-> "", data |-> ""]

TotalRows(t) ==
    Cardinality(t["projects"]) + Cardinality(t["skills"])
        + Cardinality(t["experience"]) + Cardinality(t["research"])

\* db.query(X).filter(X.<key> == key): the matching rows
RowsByKey(rows, key) == {r \in rows : r.key = key}

\* a table without a primary key
NoPrimaryKey(rows, key) == FALSE
\* primary_key=True: no second row with the key can be committed
PkConflict(rows, key) == RowsByKey(rows, key) # {}

\* the pydantic records built from the rows of a table (get_projects, get_skills, ...)
ListRecords(rows) == {[key |-> r.key, data |-> r.data] : r \in rows}

get(kind, op) ==
    /\ response' = RespBody(op, "Success", ListRecords(tables[kind]))
    /\ UNCHANGED <<admin, OTP_STORE, tables, workers>>

\* db.add(X(**rec.dict())); db.commit(); return rec
create(kind, op, rec) ==
    /\ rec.key \in {r.key : r \in tables[kind]} \/ TotalRows(tables) < MaxRows
    /\ IF PkConflict(tables[kind], rec.key)
       THEN /\ response' = Resp(op, "IntegrityError")
            /\ tables' = tables
       ELSE /\ tables' = [tables EXCEPT ![kind] = @ \cup {[key |-> rec.key, data |-> rec.data]}]
            /\ response' = RespBody(op, "Success", {rec})
    /\ UNCHANGED <<admin, OTP_STORE, workers>>

\* for key, value in updated.dict().items(): setattr(row, key, value)
SetAllAttrs(row, updated) == [key |-> updated.key, data |-> updated.data]
\* s.icon = updated.icon; s.skills = [...]
SetNonKeyAttrs(row, updated) == [row EXCEPT !.data = updated.data]

\* keyToo: whether the handler assigns every attribute of the record, the key included
update(kind, op, key, updated, keyToo) ==
    LET found == RowsByKey(tables[kind], key)
        row == CHOOSE r \in found : TRUE
        new == IF keyToo THEN SetAllAttrs(row, updated) ELSE SetNonKeyAttrs(row, updated)
    IN  /\ IF found = {}
           THEN /\ response' = Resp(op, "NotFound")
                /\ tables' = tables
           ELSE IF PkConflict(tables[kind] \ {row}, new.key)
           THEN /\ response' = Resp(op, "IntegrityError")
                /\ tables' = tables
           ELSE /\ tables' = [tables EXCEPT ![kind] = (@ \ {row}) \cup {new}]
                /\ response' = RespBody(op, "Success", {updated})
        /\ UNCHANGED <<admin, OTP_STORE, workers>>

\* a delete that answered success for a key with no row
AbsentIsSuccess == "Success"
\* the response to a delete whose key matches no row: HTTPException(status_code=404)
DeleteAbsent == "NotFound"

delete(kind, op, key) ==
    LET found == RowsByKey(tables[kind], key)
        row == CHOOSE r \in found : TRUE
    IN  /\ IF found = {}
           THEN /\ response' = Resp(op, DeleteAbsent)
                /\ tables' = tables
           ELSE /\ tables' = [tables EXCEPT ![kind] = @ \ {row}]
                /\ response' = Resp(op, "Success")
        /\ UNCHANGED <<admin, OTP_STORE, workers>>

get_projects == get("projects", "get_projects")
create_project(rec) == create("projects", "create_project", rec)
update_project(key, updated) == update("projects", "update_project", key, updated, TRUE)
delete_project(key) == delete("projects", "delete_project", key)

get_skills == get("skills", "get_skills")
create_skill(rec) == create("skills", "create_skill", rec)
update_skill(key, updated) == update("skills", "update_skill", key, updated, FALSE)
delete_skill(key) == delete("skills", "delete_skill", key)

get_experience == get("experience", "get_experience")
create_experience(rec) == create("experience", "create_experience", rec)
update_experience(key, updated) ==
    update("experience", "update_experience", key, updated, TRUE)
delete_experience(key) == delete("experience", "delete_experience", key)

get_research == get("research", "get_research")
create_research(rec) == create("research", "create_research", rec)
update_research(key, updated) == update("research", "update_research", key, updated, TRUE)
delete_research(key) == delete("research", "delete_research", key)

KindOf(op) ==
    CASE op \in {"get_projects", "create_project", "update_project", "delete_project"}
            -> "projects"
      [] op \in {"get_skills", "create_skill", "update_skill", "delete_skill"} -> "skills"
      [] op \in {"get_experience", "create_experience", "update_experience",
                 "delete_experience"} -> "experience"
      [] op \in {"get_research", "create_research", "update_research", "delete_research"}
            -> "research"

CreateOps == {"create_project", "create_skill", "create_experience", "create_research"}
UpdateOps == {"update_project", "update_skill", "update_experience", "update_research"}
DeleteOps == {"delete_project", "delete_skill", "delete_experience", "delete_research"}

-----------------------------------------------------------------------------
(* History: what the last request was and the state it was served in *)

NoPrev == [op |-> "none"]

\* what is kept of the call before the last one: a code it issued, a key it deleted
Summary(resp, h) ==
    IF resp.op = "forgot_password" /\ resp.result = "OtpSent"
    THEN [op |-> resp.op, email |-> h.req.email, otp |-> h.req.otp]
    ELSE IF resp.op \in DeleteOps
    THEN [op |-> resp.op, key |-> h.req.key, result |-> resp.result]
    ELSE NoPrev

NoHist == [req |-> [op |-> "none"], admin |-> {}, otp |-> {}, tables |-> <<>>, prev |-> NoPrev]

Record(req) ==
    /\ hist' = [req |-> req, admin |-> admin, otp |-> OTP_STORE, tables |-> tables,
                prev |-> Summary(response, hist)]
    /\ consumed' =
        IF req.op = "reset_password" /\ response'.result = "Success"
        THEN consumed \cup {<<req.email, req.otp>>}
        ELSE IF req.op = "forgot_password" /\ OTP_STORE' # OTP_STORE
        THEN {item \in consumed : item[1] # req.email}
        ELSE consumed

\* the history kept when every handler runs: the admin table before the call, and the
\* request when it is one that may write the table
AdminHistory(req) ==
    /\ hist' = [NoHist EXCEPT !.req = req, !.admin = admin]
    /\ consumed' = consumed

-----------------------------------------------------------------------------
(* The steps of one reset_password request, for requests served concurrently *)

Workers == 1..NumWorkers
Idle == [pc |-> "idle"]

\* requests that passed the request model's validation
ValidResetRequests ==
    {req \in ResetPasswordRequest :
        /\ validate_new_password(req.new_password) = "ok"
        /\ validate_new_password(req.confirm_password) = "ok"}

Goto(w, pc) == workers' = [workers EXCEPT ![w].pc = pc]
Finish(w, result) == workers' = [workers EXCEPT ![w].pc = "done", ![w].result = result]

Begin(w) ==
    /\ workers[w].pc = "idle"
    /\ \E req \in ValidResetRequests :
         workers' = [workers EXCEPT ![w] = [pc |-> "check_otp", req |-> req, result |-> "none"]]
    /\ UNCHANGED <<admin, OTP_STORE, tables, response, hist, consumed>>

\* lines 362-363
CheckOtp(w) ==
    /\ workers[w].pc = "check_otp"
    /\ IF OtpRejected(OTP_STORE, workers[w].req.email, workers[w].req.otp)
       THEN Finish(w, "InvalidOrExpired")
       ELSE Goto(w, "compare")
    /\ UNCHANGED <<admin, OTP_STORE, tables, response, hist, consumed>>

\* lines 364-365
ComparePasswords(w) ==
    /\ workers[w].pc = "compare"
    /\ IF workers[w].req.new_password # workers[w].req.confirm_password
       THEN Finish(w, "PasswordMismatch")
       ELSE Goto(w, "lookup")
    /\ UNCHANGED <<admin, OTP_STORE, tables, response, hist, consumed>>

\* lines 366-368
LookupAdmin(w) ==
    /\ workers[w].pc = "lookup"
    /\ IF AdminByUsername(admin, workers[w].req.email) = {}
       THEN Finish(w, "AdminNotFound")
       ELSE Goto(w, "commit")
    /\ UNCHANGED <<admin, OTP_STORE, tables, response, hist, consumed>>

\* lines 369-370: the loaded row is written back by its primary key
WriteCommit(w, committed) ==
    /\ workers[w].pc = "commit"
    /\ IF committed
       THEN /\ admin' = {IF r.username = workers[w].req.email
                         THEN [r EXCEPT !.password = workers[w].req.new_password]
                         ELSE r : r \in admin}
            /\ Goto(w, "del_otp")
       ELSE /\ admin' = admin
            /\ Finish(w, "CommitFailed")
    /\ UNCHANGED <<OTP_STORE, tables, response, hist, consumed>>

\* lines 371-372
RemoveOtp(w) ==
    /\ workers[w].pc = "del_otp"
    /\ IF DelRaises(OTP_STORE, workers[w].req.email)
       THEN /\ Finish(w, "KeyError")
            /\ OTP_STORE' = OTP_STORE
       ELSE /\ OTP_STORE' = DictDel(OTP_STORE, workers[w].req.email)
            /\ Finish(w, "Success")
    /\ UNCHANGED <<admin, tables, response, hist, consumed>>

-----------------------------------------------------------------------------
(* Specifications *)

NoResponse == Resp("none", "none")
EmptyTables == [k \in Kinds |-> {}]

Init ==
    /\ admin = {[username |-> E1, password |-> P1]}
    /\ OTP_STORE = {}
    /\ tables = EmptyTables
    /\ response = NoResponse
    /\ hist = NoHist
    /\ consumed = {}
    /\ workers = [w \in Workers |-> Idle]

\* a code is outstanding when the concurrent requests arrive
InitRace ==
    /\ admin = {[username |-> E1, password |-> P1]}
    /\ \E c \in Codes : OTP_STORE = {<<E1, Str(c)>>}
    /\ tables = EmptyTables
    /\ response = NoResponse
    /\ hist = NoHist
    /\ consumed = {}
    /\ workers = [w \in Workers |-> Idle]

(* The credential and OTP handlers, one request at a time: each is an async def *)
(* without an await, which the event loop runs to completion.                   *)
Login == \E req \in LoginRequest : login(req) /\ Record(req)
UpdateAdmin == \E req \in UpdateCredentialsRequest : update_admin(req) /\ Record(req)
ForgotPassword ==
    \E req \in ForgotPasswordRequest, otp \in Codes, sent \in BOOLEAN :
        /\ forgot_password(req, otp, sent)
        /\ Record([op |-> req.op, email |-> req.email, otp |-> Str(otp)])
VerifyOtp == \E req \in VerifyOtpRequest : verify_otp(req) /\ Record(req)
\* db.commit() is reached, and may fail, only when every check passed
CommitOutcomes(req) == IF ResetChecks(admin, OTP_STORE, req) = "ok" THEN BOOLEAN ELSE {TRUE}

ResetPassword ==
    \E req \in ResetPasswordRequest :
        \E committed \in CommitOutcomes(req) : reset_password(req, committed) /\ Record(req)

Next == Login \/ UpdateAdmin \/ ForgotPassword \/ VerifyOtp \/ ResetPassword

Spec == Init /\ [][Next]_vars

(* The content handlers *)
ContentReq(op, key, rec) == [op |-> op, key |-> key, record |-> rec]

GetProjects == get_projects /\ Record(ContentReq("get_projects", "", NoRecord))
CreateProject ==
    \E rec \in Records : create_project(rec) /\ Record(ContentReq("create_project", rec.key, rec))
UpdateProject ==
    \E key \in Keys, rec \in Records :
        update_project(key, rec) /\ Record(ContentReq("update_project", key, rec))
DeleteProject ==
    \E key \in Keys : delete_project(key) /\ Record(ContentReq("delete_project", key, NoRecord))

GetSkills == get_skills /\ Record(ContentReq("get_skills", "", NoRecord))
CreateSkill ==
    \E rec \in Records : create_skill(rec) /\ Record(ContentReq("create_skill", rec.key, rec))
UpdateSkill ==
    \E key \in Keys, rec \in Records :
        update_skill(key, rec) /\ Record(ContentReq("update_skill", key, rec))
DeleteSkill ==
    \E key \in Keys : delete_skill(key) /\ Record(ContentReq("delete_skill", key, NoRecord))

GetExperience == get_experience /\ Record(ContentReq("get_experience", "", NoRecord))
CreateExperience ==
    \E rec \in Records :
        create_experience(rec) /\ Record(ContentReq("create_experience", rec.key, rec))
UpdateExperience ==
    \E key \in Keys, rec \in Records :
        update_experience(key, rec) /\ Record(ContentReq("update_experience", key, rec))
DeleteExperience ==
    \E key \in Keys :
        delete_experience(key) /\ Record(ContentReq("delete_experience", key, NoRecord))

GetResearch == get_research /\ Record(ContentReq("get_research", "", NoRecord))
CreateResearch ==
    \E rec \in Records :
        create_research(rec) /\ Record(ContentReq("create_research", rec.key, rec))
UpdateResearch ==
    \E key \in Keys, rec \in Records :
        update_research(key, rec) /\ Record(ContentReq("update_research", key, rec))
DeleteResearch ==
    \E key \in Keys :
        delete_research(key) /\ Record(ContentReq("delete_research", key, NoRecord))

NextContent ==
    \/ GetProjects \/ CreateProject \/ UpdateProject \/ DeleteProject
    \/ GetSkills \/ CreateSkill \/ UpdateSkill \/ DeleteSkill
    \/ GetExperience \/ CreateExperience \/ UpdateExperience \/ DeleteExperience
    \/ GetResearch \/ CreateResearch \/ UpdateResearch \/ DeleteResearch

SpecContent == Init /\ [][NextContent]_vars

(* Concurrent reset_password requests, step by step *)
NextRace ==
    \E w \in Workers :
        \/ Begin(w)
        \/ CheckOtp(w)
        \/ ComparePasswords(w)
        \/ LookupAdmin(w)
        \/ \E committed \in BOOLEAN : WriteCommit(w, committed)
        \/ RemoveOtp(w)

SpecRace == InitRace /\ [][NextRace]_vars

(* Every handler, keeping the history of the admin table only, the requests cut *)
(* to one code and the passwords the policy accepts                             *)
FewPasswords == {p \in Passwords : validate_new_password(p) = "ok"}
FewOtps == {Str(OtpMin), Str(OtpMin + 1)}
Called(op) == AdminHistory([op |-> op])

AnyLogin ==
    \E req \in LoginRequest : req.password \in FewPasswords /\ login(req) /\ Called(req.op)
AnyUpdateAdmin ==
    \E req \in UpdateCredentialsRequest :
        /\ req.old_password \in FewPasswords /\ req.new_password \in FewPasswords
        /\ update_admin(req) /\ AdminHistory(req)
AnyForgotPassword ==
    \E req \in ForgotPasswordRequest, sent \in BOOLEAN :
        forgot_password(req, OtpMin, sent) /\ Called(req.op)
AnyVerifyOtp ==
    \E req \in VerifyOtpRequest : req.otp \in FewOtps /\ verify_otp(req) /\ Called(req.op)
AnyResetPassword ==
    \E req \in ResetPasswordRequest :
        /\ req.otp \in FewOtps
        /\ req.new_password \in FewPasswords /\ req.confirm_password \in FewPasswords
        /\ \E committed \in CommitOutcomes(req) :
               reset_password(req, committed) /\ AdminHistory(req)
AnyGet ==
    \/ get_projects /\ Called("get_projects")
    \/ get_skills /\ Called("get_skills")
    \/ get_experience /\ Called("get_experience")
    \/ get_research /\ Called("get_research")
AnyCreate ==
    \E rec \in Records :
        \/ create_project(rec) /\ Called("create_project")
        \/ create_skill(rec) /\ Called("create_skill")
        \/ create_experience(rec) /\ Called("create_experience")
        \/ create_research(rec) /\ Called("create_research")
AnyUpdate ==
    \E key \in Keys, rec \in Records :
        \/ update_project(key, rec) /\ Called("update_project")
        \/ update_skill(key, rec) /\ Called("update_skill")
        \/ update_experience(key, rec) /\ Called("update_experience")
        \/ update_research(key, rec) /\ Called("update_research")
AnyDelete ==
    \E key \in Keys :
        \/ delete_project(key) /\ Called("delete_project")
        \/ delete_skill(key) /\ Called("delete_skill")
        \/ delete_experience(key) /\ Called("delete_experience")
        \/ delete_research(key) /\ Called("delete_research")

NextAll ==
    \/ AnyLogin \/ AnyUpdateAdmin \/ AnyForgotPassword \/ AnyVerifyOtp \/ AnyResetPassword
    \/ AnyGet \/ AnyCreate \/ AnyUpdate \/ AnyDelete

SpecAll == Init /\ [][NextAll]_vars

-----------------------------------------------------------------------------
(* Properties of the credential and OTP handlers (Spec) *)

IsReset == response.op = "reset_password"
PolicyOk(req) == validate_new_password(req.new_password) = "ok"
\* the code the last request presented matched the OTP record it was served with
PresentedValidCode == ~OtpRejected(hist.otp, hist.req.email, hist.req.otp)

RequestsWith(item) ==
    {req \in ResetPasswordRequest : req.email = item[1] /\ req.otp = item[2]}

\* C1 as stated: once reset_password succeeded with (email, code), every reset_password
\* and verify_otp call with that email and code answers InvalidOrExpired, until a
\* forgot_password call stores a code for the email again.
C1_ConsumedAlwaysInvalid ==
    \A item \in consumed :
        /\ VerifyResult(OTP_STORE, [email |-> item[1], otp |-> item[2]]) = "InvalidOrExpired"
        /\ \A req \in RequestsWith(item), committed \in BOOLEAN :
               ResetResult(admin, OTP_STORE, req, committed) = "InvalidOrExpired"

\* C1 amended: once reset_password succeeded with (email, code), until a forgot_password
\* call stores a code for the email again, every verify_otp call with that email and
\* code answers InvalidOrExpired and every reset_password call with them fails: with
\* InvalidOrExpired when new_password satisfies the policy, with
\* PasswordPolicyViolation when it does not.
C1_ConsumedNeverUsable ==
    \A item \in consumed :
        /\ VerifyResult(OTP_STORE, [email |-> item[1], otp |-> item[2]]) = "InvalidOrExpired"
        /\ \A req \in RequestsWith(item), committed \in BOOLEAN :
               ResetResult(admin, OTP_STORE, req, committed) =
                   IF PolicyOk(req) THEN "InvalidOrExpired" ELSE "PasswordPolicyViolation"

\* a reset_password call presenting a consumed code has just been refused
C1_Witness ==
    /\ IsReset
    /\ <<hist.req.email, hist.req.otp>> \in consumed
    /\ response.result = "InvalidOrExpired"

ResetAllOrNothing ==
    IsReset =>
        /\ response.result \in {"Success", "InvalidOrExpired", "PasswordMismatch",
                                "PasswordPolicyViolation", "AdminNotFound", "CommitFailed"}
        /\ response.result = "Success" =>
               /\ AdminByUsername(admin, hist.req.email) # {}
               /\ \A r \in AdminByUsername(admin, hist.req.email) :
                      r.password = hist.req.new_password
               /\ hist.req.email \notin DictKeys(OTP_STORE)
        /\ response.result # "Success" => admin = hist.admin /\ OTP_STORE = hist.otp

\* C3 as stated: reset_password is all-or-nothing (Success: the password is the new one
\* and the OTP record is gone; any failure, a failed commit included: admin table and
\* OTP store as before), and a call with a valid code and new_password different from
\* confirm_password answers PasswordMismatch and leaves the OTP record usable.
C3_MismatchAlwaysReported ==
    /\ ResetAllOrNothing
    /\ (IsReset /\ PresentedValidCode
            /\ hist.req.new_password # hist.req.confirm_password) =>
           /\ response.result = "PasswordMismatch"
           /\ ~OtpRejected(OTP_STORE, hist.req.email, hist.req.otp)

\* C3 amended: reset_password is all-or-nothing as above, and a call with a valid code
\* and new_password different from confirm_password fails and leaves the OTP record
\* usable: with PasswordMismatch when new_password satisfies the policy, with
\* PasswordPolicyViolation when it does not.
C3_AllOrNothing ==
    /\ ResetAllOrNothing
    /\ (IsReset /\ PresentedValidCode
            /\ hist.req.new_password # hist.req.confirm_password) =>
           /\ response.result =
                  IF PolicyOk(hist.req) THEN "PasswordMismatch" ELSE "PasswordPolicyViolation"
           /\ ~OtpRejected(OTP_STORE, hist.req.email, hist.req.otp)

\* the commit of a reset that passed every check has failed, the code still stored
C3_Witness ==
    /\ IsReset
    /\ response.result = "CommitFailed"
    /\ ~OtpRejected(OTP_STORE, hist.req.email, hist.req.otp)

\* the last two calls were successful forgot_password calls for the same email
TwoIssuesInARow ==
    /\ response = Resp("forgot_password", "OtpSent")
    /\ hist.prev.op = "forgot_password"
    /\ hist.prev.email = hist.req.email

\* C4: after two successive successful forgot_password calls for an email that issued
\* c1 and then c2, verify_otp(email, c2) succeeds and verify_otp(email, c1), for c1
\* other than c2, answers InvalidOrExpired; OTP_STORE never holds two codes for an email.
C4_ReissueOverwrites ==
    /\ \A e \in DictKeys(OTP_STORE) : Cardinality({item \in OTP_STORE : item[1] = e}) = 1
    /\ TwoIssuesInARow =>
           /\ VerifyResult(OTP_STORE, [email |-> hist.req.email, otp |-> hist.req.otp])
                  = "Verified"
           /\ hist.prev.otp # hist.req.otp =>
                  VerifyResult(OTP_STORE, [email |-> hist.req.email, otp |-> hist.prev.otp])
                      = "InvalidOrExpired"

C4_Witness == TwoIssuesInARow /\ hist.prev.otp # hist.req.otp

IsLogin == response.op = "login"

LoginFrame ==
    IsLogin =>
        /\ response.result \in {"Success", "InvalidCredentials"}
        /\ admin = hist.admin
        /\ OTP_STORE = hist.otp

\* C5 as stated: login answers Success iff the trimmed username equals the stored
\* username and the trimmed password equals the stored password, and InvalidCredentials
\* otherwise; it changes neither the admin table nor the OTP store.
C5_StoredCompared ==
    /\ LoginFrame
    /\ IsLogin =>
           (response.result = "Success" <=>
               \E r \in hist.admin :
                   /\ Strip(hist.req.username) = r.username
                   /\ Strip(hist.req.password) = r.password)

\* C5 amended: login answers Success iff the trimmed username equals the stored
\* username trimmed and the trimmed password equals the stored password trimmed (exact,
\* case-sensitive), and InvalidCredentials otherwise; it changes neither the admin
\* table nor the OTP store.
C5_TrimmedCompared ==
    /\ LoginFrame
    /\ IsLogin =>
           (response.result = "Success" <=>
               \E r \in hist.admin :
                   /\ Strip(hist.req.username) = Strip(r.username)
                   /\ Strip(hist.req.password) = Strip(r.password))

\* a login succeeded against a stored password that carries whitespace
C5_Witness ==
    /\ response = Resp("login", "Success")
    /\ \E r \in admin : Strip(r.password) # r.password

NoAdminFor(req) == AdminByUsername(hist.admin, req.email) = {}

\* C9 as stated: reset_password checks OTP, password equality, policy, admin lookup in
\* this order and reports the first failure: a wrong code gives InvalidOrExpired
\* whatever the passwords are, a valid code with differing passwords gives
\* PasswordMismatch whatever the policy says, and a call passing the first three checks
\* gives AdminNotFound when no admin has the email as username.
C9_OtpCheckedFirst ==
    IsReset =>
        /\ ~PresentedValidCode => response.result = "InvalidOrExpired"
        /\ (PresentedValidCode /\ hist.req.new_password # hist.req.confirm_password) =>
               response.result = "PasswordMismatch"
        /\ (PresentedValidCode /\ hist.req.new_password = hist.req.confirm_password
                /\ PolicyOk(hist.req) /\ NoAdminFor(hist.req)) =>
               response.result = "AdminNotFound"

\* C9 amended: reset_password checks policy, OTP, password equality, admin lookup in
\* this order and reports the first failure: a new_password violating the policy gives
\* PasswordPolicyViolation whatever the code is; otherwise a wrong code gives
\* InvalidOrExpired, a valid code with differing passwords gives PasswordMismatch, and
\* a call passing these three checks gives AdminNotFound when no admin has the email
\* as username (the username was changed after the code was issued).
C9_PolicyCheckedFirst ==
    IsReset =>
        /\ ~PolicyOk(hist.req) => response.result = "PasswordPolicyViolation"
        /\ (PolicyOk(hist.req) /\ ~PresentedValidCode) =>
               response.result = "InvalidOrExpired"
        /\ (PolicyOk(hist.req) /\ PresentedValidCode
                /\ hist.req.new_password # hist.req.confirm_password) =>
               response.result = "PasswordMismatch"
        /\ (PolicyOk(hist.req) /\ PresentedValidCode
                /\ hist.req.new_password = hist.req.confirm_password
                /\ NoAdminFor(hist.req)) =>
               response.result = "AdminNotFound"

\* a valid code for an email that is no longer the admin's username
C9_Witness ==
    /\ IsReset
    /\ response.result = "AdminNotFound"
    /\ PresentedValidCode

-----------------------------------------------------------------------------
(* Concurrent resets (SpecRace) *)

Succeeded(w) == workers[w].pc = "done" /\ workers[w].result = "Success"
SameCode(v, w) ==
    /\ workers[v].pc # "idle" /\ workers[w].pc # "idle"
    /\ workers[v].req.email = workers[w].req.email
    /\ workers[v].req.otp = workers[w].req.otp

\* C2: of reset_password calls running concurrently for the same email with the same
\* valid code, under every interleaving of their steps, at most one returns Success.
C2_OneSuccessPerCode ==
    \A v \in Workers, w \in Workers :
        (v # w /\ SameCode(v, w)) => ~(Succeeded(v) /\ Succeeded(w))

\* two calls passed the OTP check on the same code; one succeeded, the other's del raised
C2_Witness ==
    \E v \in Workers, w \in Workers :
        /\ v # w /\ SameCode(v, w)
        /\ Succeeded(v)
        /\ workers[w].pc = "done" /\ workers[w].result = "KeyError"

-----------------------------------------------------------------------------
(* Properties of the content handlers (SpecContent) *)

KeysOf(rows) == {r.key : r \in rows}
Before == hist.tables[KindOf(response.op)]
After == tables[KindOf(response.op)]
KeyAbsentBefore == RowsByKey(Before, hist.req.key) = {}
DeletedTwice ==
    /\ response.op \in DeleteOps
    /\ hist.prev.op = response.op
    /\ hist.prev.key = hist.req.key

\* C6 as stated: a delete of a key that has no row answers success and leaves the table
\* unchanged, so the second of two deletes in a row of the same key succeeds as well.
C6_AbsentDeleteSucceeds ==
    /\ (response.op \in DeleteOps /\ KeyAbsentBefore) =>
           response.result = "Success" /\ tables = hist.tables
    /\ DeletedTwice => response.result = "Success"

\* C6 amended: a delete of a key that has no row answers NotFound (404) and leaves the
\* table unchanged, so the second of two deletes in a row of the same key answers
\* NotFound; a delete of a key that has a row removes it and answers success.
C6_AbsentDeleteNotFound ==
    /\ (response.op \in DeleteOps /\ KeyAbsentBefore) =>
           response.result = "NotFound" /\ tables = hist.tables
    /\ (response.op \in DeleteOps /\ ~KeyAbsentBefore) =>
           /\ response.result = "Success"
           /\ KeysOf(After) = KeysOf(Before) \ {hist.req.key}
    /\ DeletedTwice => response.result = "NotFound"

\* a key was deleted and the same delete, repeated, answered NotFound
C6_Witness ==
    /\ DeletedTwice
    /\ hist.prev.result = "Success"
    /\ response.result = "NotFound"

\* C7: an update never changes the set of keys of its table: for a key with no row it
\* answers NotFound and changes nothing; for a key with a row it overwrites that row's
\* non-key fields, and the row is still found under the key afterwards, also when the
\* record carries another key.
C7_UpdateKeepsKeys ==
    response.op \in UpdateOps =>
        /\ KeysOf(After) = KeysOf(Before)
        /\ KeyAbsentBefore => response.result = "NotFound" /\ tables = hist.tables
        /\ ~KeyAbsentBefore =>
               \E r \in RowsByKey(After, hist.req.key) : r.data = hist.req.record.data

\* C8 as stated: create inserts unconditionally: for every payload, also one whose key
\* a stored row has, it returns the record and the following list contains the record.
C8_CreateUnconditional ==
    response.op \in CreateOps =>
        /\ response.result = "Success"
        /\ response.body = {hist.req.record}
        /\ hist.req.record \in ListRecords(After)

\* C8 amended: create inserts when no stored row has the payload's key: it then returns
\* the record and the following list contains the record; when a stored row has the
\* key, the commit fails on the primary key and the table is unchanged.
C8_CreateUnlessKeyStored ==
    response.op \in CreateOps =>
        /\ KeyAbsentBefore =>
               /\ response.result = "Success"
               /\ response.body = {hist.req.record}
               /\ hist.req.record \in ListRecords(After)
               /\ After = Before \cup {hist.req.record}
        /\ ~KeyAbsentBefore =>
               /\ response.result = "IntegrityError"
               /\ tables = hist.tables

\* a create whose key was stored already, with other data, has been refused
C8_Witness ==
    /\ response.op \in CreateOps
    /\ ~KeyAbsentBefore
    /\ hist.req.record \notin ListRecords(Before)
    /\ response.result = "IntegrityError"

-----------------------------------------------------------------------------
(* The admin singleton (SpecAll) *)

AfterCall == response.op # "none"
OldCredentialsMatch ==
    \E r \in hist.admin :
        r.username = hist.req.old_username /\ r.password = hist.req.old_password

\* C10: exactly one admin row exists in every reachable state, whatever handlers run;
\* only a successful update_admin or reset_password changes it; update_admin succeeds
\* only when old username and old password equal the stored ones exactly and then
\* rewrites the row, and otherwise answers Unauthorized and changes nothing;
\* reset_password rewrites the password of the row.
C10_OneAdmin ==
    /\ Cardinality(admin) = 1
    /\ AfterCall =>
           /\ Cardinality(hist.admin) = 1
           /\ admin # hist.admin =>
                  /\ response.op \in {"update_admin", "reset_password"}
                  /\ response.result = "Success"
           /\ response.op = "update_admin" =>
                  IF OldCredentialsMatch
                  THEN /\ response.result = "Success"
                       /\ admin = {[username |-> hist.req.new_username,
                                    password |-> hist.req.new_password]}
                  ELSE /\ response.result = "Unauthorized"
                       /\ admin = hist.admin
           /\ (response.op = "reset_password" /\ response.result = "Success") =>
                  admin = {[username |-> hist.req.email,
                            password |-> hist.req.new_password]}

\* credentials changed and content rows stored, still one admin row
C10_Witness ==
    /\ response = Resp("update_admin", "Success")
    /\ Cardinality(admin) = 1
    /\ \A r \in admin : r.username = E2
    /\ TotalRows(tables) > 0

====
